---- MODULE Spec2Model ----
(***************************************************************************)
(* A model of motu-tools (src/main.go): a command line tool that reads a   *)
(* gain or mute property of a MOTU interface over HTTP, computes the next  *)
(* value and writes it back.                                               *)
(*                                                                         *)
(* Numbers.  Every value that crosses the wire is a decimal with six       *)
(* fractional digits: patch renders the value with fmt's %f (main.go:271). *)
(* All raw values, and the bounds of a device, are therefore integers in   *)
(* units of 10^-6 (Micro): -50 is -50000000, 3.125 is 3125000, the         *)
(* amplitude ratio 0.630957 is 630957.  The linear arithmetic of the code  *)
(* (ceiling, +/- 3.125, min, max) is exact in float64 and in this unit.    *)
(* The logarithmic conversions are irrational; they are modelled by the    *)
(* two tables below, which give their values at this precision.            *)
(***************************************************************************)
EXTENDS Integers, Sequences, FiniteSets, TLC

VARIABLES
    devices,    \* the descriptor table (main.go:49, a package variable)
    store,      \* the MOTU datastore: property path -> value, in Micro units
    pc,         \* per invocation: where the process is
    dev,        \* per invocation: os.Args[1]
    cmd,        \* per invocation: os.Args[2], normalised to mute / inc / dec
    current,    \* per invocation: the value get returned
    newValue,   \* per invocation: the value computed for patch
    err,        \* per invocation: the error main reports ("none" when nil)
    patches,    \* per invocation: number of calls of patch
    sounds,     \* per invocation: number of calls of playSound
    fdev,       \* function harness: the device the stepping function is applied to
    x0,         \* function harness: the first current value
    xprev,      \* function harness: the current value of the last application
    x,          \* function harness: the value last returned, fed back as current
    ops,        \* function harness: the directions applied so far (TRUE = inc)
    dir,        \* function harness: the direction of a repeated key press
    fpanic      \* function harness: the last application panicked

progVars == <<store, pc, dev, cmd, current, newValue, err, patches, sounds>>
fnVars == <<fdev, x0, xprev, x, ops, dir, fpanic>>
vars == <<devices, store, pc, dev, cmd, current, newValue, err, patches, sounds,
          fdev, x0, xprev, x, ops, dir, fpanic>>

----------------------------------------------------------------------------
(* Constants of the program *)

\* six fractional digits of %f
Micro == 1000000

volumeDenominations == 16

scaleLinear == "linear"
scaleLog == "log"

ConfiguredDevices ==
    [ main |->
        [ Property     |-> "datastore/ext/obank/1/ch/0/stereoTrim",
          MuteProperty |-> "datastore/mix/main/0/matrix/mute",
          Scale        |-> scaleLinear,
          Max          |-> 0,
          Min          |-> -50 * Micro,
          ZeroVolume   |-> -127 * Micro ],
      computer |->
        [ Property     |-> "datastore/mix/chan/10/matrix/fader",
          MuteProperty |-> "datastore/mix/chan/10/matrix/mute",
          Scale        |-> scaleLog,
          Max          |-> 0,
          Min          |-> -64 * Micro,
          ZeroVolume   |-> 0 ] ]

\* The table with the logarithmic device given a nonzero ZeroVolume (5.0).
MisconfiguredDevices ==
    [ConfiguredDevices EXCEPT !.computer.ZeroVolume = 5 * Micro]

DeviceNames == DOMAIN ConfiguredDevices

Properties ==
    {ConfiguredDevices[n].Property : n \in DeviceNames}
        \cup {ConfiguredDevices[n].MuteProperty : n \in DeviceNames}

----------------------------------------------------------------------------
(* Floating point helpers *)

MinOf(a, b) == IF a <= b THEN a ELSE b
MaxOf(a, b) == IF a >= b THEN a ELSE b

\* Rounding down where the code rounds up.
CeilFloorBug(v) == (v \div Micro) * Micro
\* math.Ceil, in Micro units: the least whole number >= v.
Ceil(v) == -(((-v) \div Micro) * Micro)

\* log10(0) is -Inf; every comparison and clamp of the code treats it as a
\* value below every bound.
NegInf == -2000 * Micro

\* ThrTable[n + 121], n in -120..0, is floor(10^6 * 10^(n/20)): the largest
\* raw value (in Micro units) whose decibel value 10*log10(raw^2) is <= n.
ThrTable ==
    <<
       1, 1, 1, 1, 1, 1, 1, 2, 2, 2, 3, 3,
       3, 4, 5, 5, 6, 7, 7, 8, 10, 11, 12, 14,
       15, 17, 19, 22, 25, 28, 31, 35, 39, 44, 50, 56,
       63, 70, 79, 89, 100, 112, 125, 141, 158, 177, 199, 223,
       251, 281, 316, 354, 398, 446, 501, 562, 630, 707, 794, 891,
       1000, 1122, 1258, 1412, 1584, 1778, 1995, 2238, 2511, 2818, 3162, 3548,
       3981, 4466, 5011, 5623, 6309, 7079, 7943, 8912, 10000, 11220, 12589, 14125,
       15848, 17782, 19952, 22387, 25118, 28183, 31622, 35481, 39810, 44668, 50118, 56234,
       63095, 70794, 79432, 89125, 100000, 112201, 125892, 141253, 158489, 177827, 199526, 223872,
       251188, 281838, 316227, 354813, 398107, 446683, 501187, 562341, 630957, 707945, 794328, 891250,
       1000000
    >>

Thr(n) == ThrTable[n + Len(ThrTable)]

LowestDB == 1 - Len(ThrTable)

\* AmpTable[n + 65], n in -64..0, is sqrt(10^(n/10)) rendered by %f:
\* 10^6 * 10^(n/20) rounded to the nearest integer.
AmpTable ==
    <<
       631, 708, 794, 891, 1000, 1122, 1259, 1413, 1585, 1778, 1995, 2239,
       2512, 2818, 3162, 3548, 3981, 4467, 5012, 5623, 6310, 7079, 7943, 8913,
       10000, 11220, 12589, 14125, 15849, 17783, 19953, 22387, 25119, 28184, 31623, 35481,
       39811, 44668, 50119, 56234, 63096, 70795, 79433, 89125, 100000, 112202, 125893, 141254,
       158489, 177828, 199526, 223872, 251189, 281838, 316228, 354813, 398107, 446684, 501187, 562341,
       630957, 707946, 794328, 891251, 1000000
    >>

\* math.Ceil(10 * math.Log10(math.Pow(current, 2))), in Micro decibels, for
\* an amplitude ratio 0 <= current <= 1.  At the exact powers of ten
\* (0.001, 0.01, 0.1, 1) float64 evaluation gives the whole decibel value.
CeilDB(cur) ==
    IF cur = 0 THEN NegInf
    ELSE Micro * (CHOOSE n \in LowestDB..0 :
                     /\ cur <= Thr(n)
                     /\ \A m \in LowestDB..(n - 1) : cur > Thr(m))

\* math.Sqrt(math.Pow(10, newDB/10)) bounded to [0, 1], for a whole decibel
\* value newDB (Micro decibels) in -64..0, at the precision of the wire.
AmpRatio(newDB) ==
    MinOf(MaxOf(AmpTable[(newDB \div Micro) + Len(AmpTable)], 0), Micro)

----------------------------------------------------------------------------
(* The volume stepping functions *)

Delta(d) == (d.Max - d.Min) \div volumeDenominations

\* x + y and x - y where x may be -Inf
Plus(a, b) == IF a = NegInf THEN NegInf ELSE a + b

\* newVolume, before the snap to zero and the clamp (main.go:194-199)
SteppedLinear(d, cur, inc) ==
    IF inc THEN Ceil(cur) + Delta(d) ELSE Ceil(cur) - Delta(d)

\* newVolumeLinear without the jump to ZeroVolume.
newVolumeLinearNoSnap(d, cur, inc) ==
    MinOf(MaxOf(SteppedLinear(d, cur, inc), d.Min), d.Max)

\* newVolumeLinear without the upper clamp.
newVolumeLinearNoUpper(d, cur, inc) ==
    LET newVolume == SteppedLinear(d, cur, inc) IN
    IF ~inc /\ newVolume <= d.Min
    THEN d.ZeroVolume
    ELSE MaxOf(newVolume, d.Min)

\* newVolumeLinear (main.go:191-209)
newVolumeLinear(d, cur, inc) ==
    LET newVolume == SteppedLinear(d, cur, inc) IN
    IF ~inc /\ newVolume <= d.Min
    THEN d.ZeroVolume
    ELSE MinOf(MaxOf(newVolume, d.Min), d.Max)

\* newDB, before the snap to zero and the clamp (main.go:214-223)
SteppedLog(d, cur, inc) ==
    IF inc THEN Plus(CeilDB(cur), Delta(d)) ELSE Plus(CeilDB(cur), -Delta(d))

\* The result of newVolumeLog: a value, or a panic.
Returns(v) == [panic |-> FALSE, value |-> v]
Panics == [panic |-> TRUE, value |-> 0]

\* newVolumeLog without the check of ZeroVolume.
newVolumeLogNoCheck(d, cur, inc) ==
    LET newDB == SteppedLog(d, cur, inc) IN
    IF ~inc /\ newDB <= d.Min
    THEN Returns(d.ZeroVolume)
    ELSE Returns(AmpRatio(MinOf(MaxOf(newDB, d.Min), d.Max)))

\* newVolumeLog without the jump to ZeroVolume.
newVolumeLogNoSnap(d, cur, inc) ==
    LET newDB == SteppedLog(d, cur, inc) IN
    Returns(AmpRatio(MinOf(MaxOf(newDB, d.Min), d.Max)))

\* newVolumeLog (main.go:211-240)
newVolumeLog(d, cur, inc) ==
    LET newDB == SteppedLog(d, cur, inc) IN
    IF ~inc /\ newDB <= d.Min
    THEN IF d.ZeroVolume # 0 THEN Panics ELSE Returns(d.ZeroVolume)
    ELSE Returns(AmpRatio(MinOf(MaxOf(newDB, d.Min), d.Max)))

\* The switch on d.Scale in IncDec (main.go:170-178)
newVolume(d, cur, inc) ==
    IF d.Scale = scaleLinear THEN Returns(newVolumeLinear(d, cur, inc))
    ELSE IF d.Scale = scaleLog THEN newVolumeLog(d, cur, inc)
    ELSE Panics

Stepped(d, cur, inc) ==
    IF d.Scale = scaleLinear THEN SteppedLinear(d, cur, inc)
    ELSE SteppedLog(d, cur, inc)

\* A Mute that never unmutes.
nextMuteStaysMuted(cur) ==
    IF cur = 0 THEN [unexpected |-> FALSE, value |-> Micro]
    ELSE IF cur = Micro THEN [unexpected |-> FALSE, value |-> Micro]
    ELSE [unexpected |-> TRUE, value |-> 0]

\* The mute value Mute computes from the one it read (main.go:148-155):
\* a value to write, or the "unexpected current mute value" error.
nextMute(cur) ==
    IF cur = 0 THEN [unexpected |-> FALSE, value |-> Micro]
    ELSE IF cur = Micro THEN [unexpected |-> FALSE, value |-> 0]
    ELSE [unexpected |-> TRUE, value |-> 0]

----------------------------------------------------------------------------
(* Bounds of the model *)

\* resolution of the raw values tried as inputs: multiples of 1/Grid
Grid == 8
\* length of a free sequence of applications of the stepping function
MaxOps == 2
\* length of a run of repeated presses of one key
MaxChain == 24

Procs == {"p1", "p2"}

Commands == {"mute", "inc", "dec"}

\* Raw values a linear device may hold when the tool is started.
LinearInputs(d) ==
    {k * (Micro \div Grid) :
        k \in (Grid * (d.Min \div Micro))..(Grid * (d.Max \div Micro))}
    \cup {k * Micro : k \in (d.ZeroVolume \div Micro)..(d.Min \div Micro)}
    \cup {d.Min, d.Max, d.ZeroVolume}

\* Amplitude ratios a logarithmic device may hold when the tool is started:
\* zero, the values on both sides of every whole decibel, an even spread.
LogInputs ==
    {0}
    \cup {Thr(n) : n \in LowestDB..0}
    \cup {Thr(n) + 1 : n \in LowestDB..(-1)}
    \cup {k * (Micro \div (Grid * Grid)) : k \in 0..(Grid * Grid)}

Inputs(d) == IF d.Scale = scaleLinear THEN LinearInputs(d) ELSE LogInputs

\* The few values the invocations of Spec start from.
StartValues(d) ==
    IF d.Scale = scaleLinear
    THEN {d.ZeroVolume, d.Min, d.Min + Delta(d), (d.Min + d.Max) \div 2, d.Max}
    ELSE {0, AmpRatio(d.Min), AmpRatio((d.Min + d.Max) \div 2), AmpRatio(d.Max)}

\* Values of a mute property: unmuted, muted, and one that is neither.
MuteValues == {0, Micro, Micro \div 2}

----------------------------------------------------------------------------
(* The stepping functions applied repeatedly, each result fed back through *)
(* the device as the next current value.                                   *)

ProgIdle ==
    /\ store = [prop \in Properties |-> 0]
    /\ pc = [p \in Procs |-> "start"]
    /\ dev = [p \in Procs |-> "main"]
    /\ cmd = [p \in Procs |-> "mute"]
    /\ current = [p \in Procs |-> 0]
    /\ newValue = [p \in Procs |-> 0]
    /\ err = [p \in Procs |-> "none"]
    /\ patches = [p \in Procs |-> 0]
    /\ sounds = [p \in Procs |-> 0]

FnIdle ==
    /\ fdev = "main"
    /\ x0 = 0
    /\ xprev = 0
    /\ x = 0
    /\ ops = << >>
    /\ dir = FALSE
    /\ fpanic = FALSE

InitFn ==
    /\ devices = ConfiguredDevices
    /\ ProgIdle
    /\ fdev \in DeviceNames
    /\ x0 \in Inputs(devices[fdev])
    /\ xprev = x0
    /\ x = x0
    /\ ops = << >>
    /\ dir = FALSE
    /\ fpanic = FALSE

InitChain ==
    /\ devices = ConfiguredDevices
    /\ ProgIdle
    /\ fdev \in DeviceNames
    /\ x0 \in Inputs(devices[fdev])
    /\ xprev = x0
    /\ x = x0
    /\ ops = << >>
    /\ dir \in BOOLEAN
    /\ fpanic = FALSE

\* One application: current := x, x := newVolume(current).
Step(inc) ==
    LET r == newVolume(devices[fdev], x, inc) IN
    /\ ~fpanic
    /\ fpanic' = r.panic
    /\ x' = IF r.panic THEN x ELSE r.value
    /\ xprev' = x
    /\ ops' = Append(ops, inc)
    /\ dir' = inc
    /\ UNCHANGED <<devices, fdev, x0>>
    /\ UNCHANGED progVars

Apply(inc) ==
    /\ Len(ops) < MaxOps
    /\ Step(inc)

Repeat ==
    /\ Len(ops) < MaxChain
    /\ Step(dir)

NextFn == \E inc \in BOOLEAN : Apply(inc)

SpecFn == InitFn /\ [][NextFn]_vars

NextChain == Repeat

SpecChain == InitChain /\ [][NextChain]_vars

\* A key that is pressed again is eventually handled.
FairChain == SpecChain /\ WF_vars(Repeat)

----------------------------------------------------------------------------
(* The program: invocations of the tool against the device.  Each process  *)
(* in Procs is one run of main; runs of different processes interleave at  *)
(* their HTTP requests.                                                    *)

\* What the datastore may hold when the first invocation starts.
StartStores ==
    LET all == MuteValues \cup UNION {StartValues(ConfiguredDevices[n]) : n \in DeviceNames}
    IN {s \in [Properties -> all] :
          \A n \in DeviceNames :
             /\ s[ConfiguredDevices[n].Property] \in StartValues(ConfiguredDevices[n])
             /\ s[ConfiguredDevices[n].MuteProperty] \in MuteValues}

Init ==
    /\ devices = ConfiguredDevices
    /\ store \in StartStores
    /\ pc = [p \in Procs |-> "start"]
    /\ dev = [p \in Procs |-> "main"]
    /\ cmd = [p \in Procs |-> "mute"]
    /\ current = [p \in Procs |-> 0]
    /\ newValue = [p \in Procs |-> 0]
    /\ err = [p \in Procs |-> "none"]
    /\ patches = [p \in Procs |-> 0]
    /\ sounds = [p \in Procs |-> 0]
    /\ FnIdle

\* main: the device and the command are looked up, Mute or IncDec is called.
Invoke(p, name, c) ==
    /\ pc[p] = "start"
    /\ name \in DOMAIN devices
    /\ pc' = [pc EXCEPT ![p] = "get"]
    /\ dev' = [dev EXCEPT ![p] = name]
    /\ cmd' = [cmd EXCEPT ![p] = c]
    /\ UNCHANGED <<devices, store, current, newValue, err, patches, sounds>>
    /\ UNCHANGED fnVars

\* A Mute that takes every value other than 0 for 1.
MuteGetCoerces(p) ==
    LET d == devices[dev[p]]
        cur == store[d.MuteProperty]
    IN
    /\ pc[p] = "get"
    /\ cmd[p] = "mute"
    /\ current' = [current EXCEPT ![p] = cur]
    /\ newValue' = [newValue EXCEPT ![p] = IF cur = 0 THEN Micro ELSE 0]
    /\ pc' = [pc EXCEPT ![p] = "patch"]
    /\ UNCHANGED <<devices, store, dev, cmd, err, patches, sounds>>
    /\ UNCHANGED fnVars

\* Mute: get succeeds; the next value is computed, or the value read is
\* neither 0 nor 1 and Mute returns an error.
MuteGet(p) ==
    LET d == devices[dev[p]]
        cur == store[d.MuteProperty]
        r == nextMute(cur)
    IN
    /\ pc[p] = "get"
    /\ cmd[p] = "mute"
    /\ current' = [current EXCEPT ![p] = cur]
    /\ IF r.unexpected
       THEN /\ err' = [err EXCEPT ![p] = "state"]
            /\ pc' = [pc EXCEPT ![p] = "done"]
            /\ UNCHANGED newValue
       ELSE /\ newValue' = [newValue EXCEPT ![p] = r.value]
            /\ pc' = [pc EXCEPT ![p] = "patch"]
            /\ UNCHANGED err
    /\ UNCHANGED <<devices, store, dev, cmd, patches, sounds>>
    /\ UNCHANGED fnVars

\* Mute: get fails (transport or decoding).
MuteGetFail(p) ==
    /\ pc[p] = "get"
    /\ cmd[p] = "mute"
    /\ err' = [err EXCEPT ![p] = "get"]
    /\ pc' = [pc EXCEPT ![p] = "done"]
    /\ UNCHANGED <<devices, store, dev, cmd, current, newValue, patches, sounds>>
    /\ UNCHANGED fnVars

\* Mute: patch succeeds and Mute returns nil.
MutePatch(p) ==
    LET d == devices[dev[p]] IN
    /\ pc[p] = "patch"
    /\ cmd[p] = "mute"
    /\ store' = [store EXCEPT ![d.MuteProperty] = newValue[p]]
    /\ patches' = [patches EXCEPT ![p] = @ + 1]
    /\ pc' = [pc EXCEPT ![p] = "done"]
    /\ UNCHANGED <<devices, dev, cmd, current, newValue, err, sounds>>
    /\ UNCHANGED fnVars

\* Mute: patch fails; the request may or may not have reached the device.
MutePatchFail(p) ==
    LET d == devices[dev[p]] IN
    /\ pc[p] = "patch"
    /\ cmd[p] = "mute"
    /\ \E applied \in BOOLEAN :
          store' = IF applied
                   THEN [store EXCEPT ![d.MuteProperty] = newValue[p]]
                   ELSE store
    /\ patches' = [patches EXCEPT ![p] = @ + 1]
    /\ err' = [err EXCEPT ![p] = "patch"]
    /\ pc' = [pc EXCEPT ![p] = "done"]
    /\ UNCHANGED <<devices, dev, cmd, current, newValue, sounds>>
    /\ UNCHANGED fnVars

\* IncDec: get succeeds and the new volume is computed (or the computation
\* panics and the process dies).
IncDecGet(p) ==
    LET d == devices[dev[p]]
        cur == store[d.Property]
        r == newVolume(d, cur, cmd[p] = "inc")
    IN
    /\ pc[p] = "get"
    /\ cmd[p] \in {"inc", "dec"}
    /\ current' = [current EXCEPT ![p] = cur]
    /\ IF r.panic
       THEN /\ pc' = [pc EXCEPT ![p] = "panic"]
            /\ UNCHANGED newValue
       ELSE /\ newValue' = [newValue EXCEPT ![p] = r.value]
            /\ pc' = [pc EXCEPT ![p] = "patch"]
    /\ UNCHANGED <<devices, store, dev, cmd, err, patches, sounds>>
    /\ UNCHANGED fnVars

\* IncDec: get fails.
IncDecGetFail(p) ==
    /\ pc[p] = "get"
    /\ cmd[p] \in {"inc", "dec"}
    /\ err' = [err EXCEPT ![p] = "get"]
    /\ pc' = [pc EXCEPT ![p] = "done"]
    /\ UNCHANGED <<devices, store, dev, cmd, current, newValue, patches, sounds>>
    /\ UNCHANGED fnVars

\* A patch that recomputes from the value the device holds now.
IncDecPatchAtomic(p) ==
    LET d == devices[dev[p]] IN
    /\ pc[p] = "patch"
    /\ cmd[p] \in {"inc", "dec"}
    /\ store' = [store EXCEPT ![d.Property] =
                    newVolume(d, store[d.Property], cmd[p] = "inc").value]
    /\ patches' = [patches EXCEPT ![p] = @ + 1]
    /\ pc' = [pc EXCEPT ![p] = "sound"]
    /\ UNCHANGED <<devices, dev, cmd, current, newValue, err, sounds>>
    /\ UNCHANGED fnVars

\* IncDec: patch succeeds.
IncDecPatch(p) ==
    LET d == devices[dev[p]] IN
    /\ pc[p] = "patch"
    /\ cmd[p] \in {"inc", "dec"}
    /\ store' = [store EXCEPT ![d.Property] = newValue[p]]
    /\ patches' = [patches EXCEPT ![p] = @ + 1]
    /\ pc' = [pc EXCEPT ![p] = "sound"]
    /\ UNCHANGED <<devices, dev, cmd, current, newValue, err, sounds>>
    /\ UNCHANGED fnVars

\* IncDec: patch fails; the request may or may not have reached the device.
IncDecPatchFail(p) ==
    LET d == devices[dev[p]] IN
    /\ pc[p] = "patch"
    /\ cmd[p] \in {"inc", "dec"}
    /\ \E applied \in BOOLEAN :
          store' = IF applied
                   THEN [store EXCEPT ![d.Property] = newValue[p]]
                   ELSE store
    /\ patches' = [patches EXCEPT ![p] = @ + 1]
    /\ err' = [err EXCEPT ![p] = "patch"]
    /\ pc' = [pc EXCEPT ![p] = "done"]
    /\ UNCHANGED <<devices, dev, cmd, current, newValue, sounds>>
    /\ UNCHANGED fnVars

\* IncDec: playSound succeeds and IncDec returns nil.
IncDecSound(p) ==
    /\ pc[p] = "sound"
    /\ sounds' = [sounds EXCEPT ![p] = @ + 1]
    /\ pc' = [pc EXCEPT ![p] = "done"]
    /\ UNCHANGED <<devices, store, dev, cmd, current, newValue, err, patches>>
    /\ UNCHANGED fnVars

\* A failed sound that writes the value read back to the device.
IncDecSoundFailRollsBack(p) ==
    LET d == devices[dev[p]] IN
    /\ pc[p] = "sound"
    /\ sounds' = [sounds EXCEPT ![p] = @ + 1]
    /\ store' = [store EXCEPT ![d.Property] = current[p]]
    /\ patches' = [patches EXCEPT ![p] = @ + 1]
    /\ err' = [err EXCEPT ![p] = "sound"]
    /\ pc' = [pc EXCEPT ![p] = "done"]
    /\ UNCHANGED <<devices, dev, cmd, current, newValue>>
    /\ UNCHANGED fnVars

\* IncDec: playSound fails and IncDec returns the error.
IncDecSoundFail(p) ==
    /\ pc[p] = "sound"
    /\ sounds' = [sounds EXCEPT ![p] = @ + 1]
    /\ err' = [err EXCEPT ![p] = "sound"]
    /\ pc' = [pc EXCEPT ![p] = "done"]
    /\ UNCHANGED <<devices, store, dev, cmd, current, newValue, patches>>
    /\ UNCHANGED fnVars

Next ==
    \E p \in Procs :
        \/ \E name \in DeviceNames, c \in Commands : Invoke(p, name, c)
        \/ MuteGet(p)
        \/ MuteGetFail(p)
        \/ MutePatch(p)
        \/ MutePatchFail(p)
        \/ IncDecGet(p)
        \/ IncDecGetFail(p)
        \/ IncDecPatch(p)
        \/ IncDecPatchFail(p)
        \/ IncDecSound(p)
        \/ IncDecSoundFail(p)

Spec == Init /\ [][Next]_vars

\* The same program started with the misconfigured descriptor table.
InitMisconfigured ==
    /\ devices = MisconfiguredDevices
    /\ store \in StartStores
    /\ pc = [p \in Procs |-> "start"]
    /\ dev = [p \in Procs |-> "main"]
    /\ cmd = [p \in Procs |-> "mute"]
    /\ current = [p \in Procs |-> 0]
    /\ newValue = [p \in Procs |-> 0]
    /\ err = [p \in Procs |-> "none"]
    /\ patches = [p \in Procs |-> 0]
    /\ sounds = [p \in Procs |-> 0]
    /\ FnIdle

SpecMisconfigured == InitMisconfigured /\ [][Next]_vars

----------------------------------------------------------------------------
(* Vocabulary of the properties *)

\* The displayed value of raw value v (raw units, or decibels) is >= b / <= b,
\* for a whole bound b in Micro units.  10^6 * 10^(n/20) is an integer only
\* when n is a multiple of 20.
AtLeastDisplayed(d, v, b) ==
    IF d.Scale = scaleLinear THEN v >= b
    ELSE LET n == b \div Micro IN
         /\ v > 0
         /\ \/ v > Thr(n)
            \/ v = Thr(n) /\ n % 20 = 0

AtMostDisplayed(d, v, b) ==
    IF d.Scale = scaleLinear THEN v <= b
    ELSE v = 0 \/ v <= Thr(b \div Micro)

\* The ceiling of the displayed value, as the code computes it.
CeilDisplayed(d, v) == IF d.Scale = scaleLinear THEN Ceil(v) ELSE CeilDB(v)

\* The raw value of a bound of the displayed range.
BoundValue(d, b) == IF d.Scale = scaleLinear THEN b ELSE AmpRatio(b)

Abs(a) == IF a < 0 THEN -a ELSE a

FDevice == devices[fdev]
LastOp == ops[Len(ops)]
Applied == Len(ops) >= 1 /\ ~fpanic

\* The step of process p in which a patch of the given command succeeds.
MuteWritten(p) ==
    pc[p] = "patch" /\ cmd[p] = "mute" /\ pc'[p] = "done" /\ err'[p] = "none"

Increase(d, v) == newVolume(d, v, TRUE).value

----------------------------------------------------------------------------
(* C1 *)

\* C1 (as stated): whatever value Mute read, a successful Mute writes 1 to
\* the mute property.
C1_MuteAlwaysWritesOne ==
    [][\A p \in Procs :
          MuteWritten(p) => store'[devices[dev[p]].MuteProperty] = Micro]_vars

\* C1 (amended): a successful Mute toggles: it writes 1 when it read 0 and
\* 0 when it read 1, and it writes nothing else.
C1_MuteToggles ==
    [][\A p \in Procs :
          MuteWritten(p) =>
             /\ current[p] \in {0, Micro}
             /\ current[p] = 0 => store'[devices[dev[p]].MuteProperty] = Micro
             /\ current[p] = Micro => store'[devices[dev[p]].MuteProperty] = 0]_vars

C1_Witness ==
    \E p \in Procs :
        /\ pc[p] = "done" /\ cmd[p] = "mute" /\ err[p] = "none"
        /\ patches[p] = 1
        /\ current[p] = Micro
        /\ store[devices[dev[p]].MuteProperty] = 0

----------------------------------------------------------------------------
(* C2 *)

\* C2 (as stated): a decrease from a current value whose displayed value v
\* satisfies min <= v <= min + step returns zeroVolume.
C2_DecreaseWithinOneStepOfMin ==
    (/\ Applied
     /\ ~LastOp
     /\ AtLeastDisplayed(FDevice, xprev, FDevice.Min)
     /\ AtMostDisplayed(FDevice, xprev, FDevice.Min + Delta(FDevice)))
    => x = FDevice.ZeroVolume

\* C2 (amended): a decrease from a current value whose displayed value v
\* satisfies min <= v and ceiling(v) <= min + step returns zeroVolume.
C2_DecreaseCeilingWithinOneStepOfMin ==
    (/\ Len(ops) >= 1
     /\ ~LastOp
     /\ AtLeastDisplayed(FDevice, xprev, FDevice.Min)
     /\ CeilDisplayed(FDevice, xprev) <= FDevice.Min + Delta(FDevice))
    => ~fpanic /\ x = FDevice.ZeroVolume

C2_Witness ==
    /\ ops = <<FALSE>>
    /\ FDevice.Scale = scaleLinear
    /\ xprev > FDevice.Min
    /\ Ceil(xprev) <= FDevice.Min + Delta(FDevice)
    /\ x = FDevice.ZeroVolume

----------------------------------------------------------------------------
(* C3 *)

\* C3: a failed read, and in Mute a value read that is neither 0 nor 1,
\* ends the invocation with an error, without a patch and with the store
\* unchanged; an invocation that has returned does nothing more.
C3_FailureBeforeWriteAborts ==
    [][\A p \in Procs :
          /\ pc[p] = "get" /\ pc'[p] = "done" =>
                /\ err'[p] \in {"get", "state"}
                /\ store' = store
                /\ patches'[p] = 0
                /\ sounds'[p] = 0
          /\ (/\ pc[p] = "get" /\ pc'[p] # "get" /\ cmd[p] = "mute"
              /\ store[devices[dev[p]].MuteProperty] \notin {0, Micro}) =>
                /\ pc'[p] = "done"
                /\ err'[p] \in {"get", "state"}
          /\ pc[p] = "done" =>
                /\ pc'[p] = "done"
                /\ patches'[p] = patches[p]
                /\ err'[p] = err[p]]_vars

C3_Witness ==
    \E p \in Procs :
        /\ pc[p] = "done" /\ cmd[p] = "mute" /\ err[p] = "state"
        /\ current[p] \notin {0, Micro}
        /\ patches[p] = 0

----------------------------------------------------------------------------
(* C4 *)

\* C4: on the linear device, for a raw value v in [min, max], an increase
\* followed by a decrease returns w with |w - v| <= step, and never
\* zeroVolume.
C4_IncreaseThenDecrease ==
    (/\ FDevice.Scale = scaleLinear
     /\ ops = <<TRUE, FALSE>>
     /\ FDevice.Min <= x0 /\ x0 <= FDevice.Max)
    => /\ ~fpanic
       /\ Abs(x - x0) <= Delta(FDevice)
       /\ x # FDevice.ZeroVolume

C4_Witness ==
    /\ FDevice.Scale = scaleLinear
    /\ ops = <<TRUE, FALSE>>
    /\ x0 = FDevice.Min
    /\ x # x0
    /\ Abs(x - x0) <= Delta(FDevice)

----------------------------------------------------------------------------
(* C5 *)

\* C5 (as stated): whenever the stepped value lies outside [min, max], the
\* value returned is the nearest bound, in either direction.
C5_ClampToNearestBound ==
    Applied =>
        LET s == Stepped(FDevice, xprev, LastOp) IN
        /\ s < FDevice.Min => x = BoundValue(FDevice, FDevice.Min)
        /\ s > FDevice.Max => x = BoundValue(FDevice, FDevice.Max)

\* C5 (amended): a stepped value above max returns max; the stepped value
\* of an increase below min returns min; the stepped value of a decrease at
\* or below min returns zeroVolume, not min.
C5_ClampOrSnap ==
    Len(ops) >= 1 =>
        LET s == Stepped(FDevice, xprev, LastOp) IN
        /\ ~fpanic
        /\ s > FDevice.Max => x = BoundValue(FDevice, FDevice.Max)
        /\ LastOp /\ s < FDevice.Min => x = BoundValue(FDevice, FDevice.Min)
        /\ ~LastOp /\ s <= FDevice.Min => x = FDevice.ZeroVolume

C5_Witness ==
    /\ ops = <<TRUE>>
    /\ Stepped(FDevice, xprev, TRUE) < FDevice.Min
    /\ x = BoundValue(FDevice, FDevice.Min)
    /\ x # xprev

----------------------------------------------------------------------------
(* C6 *)

C6_Case == FDevice.Scale = scaleLog /\ x0 = Micro /\ ~dir

\* C6: on the logarithmic device, decreasing repeatedly from raw 1.0
\* eventually returns exactly 0: a decrease returns 0 when its stepped
\* decibel value is <= min, and a value in (0, 1] otherwise.
C6_DecreaseReachesZero ==
    /\ [](C6_Case /\ Len(ops) >= 1 =>
             /\ ~fpanic
             /\ SteppedLog(FDevice, xprev, FALSE) <= FDevice.Min => x = 0
             /\ SteppedLog(FDevice, xprev, FALSE) > FDevice.Min =>
                   0 < x /\ x <= Micro)
    /\ (C6_Case ~> (x = 0))

C6_Witness ==
    /\ C6_Case
    /\ Len(ops) > 1
    /\ xprev > 0
    /\ x = 0

----------------------------------------------------------------------------
(* C7 *)

\* C7: with a logarithmic descriptor whose zeroVolume is not 0, a decrease
\* whose stepped decibel value is <= min panics: nothing is written, and
\* the device never holds that zeroVolume.
C7_MisconfiguredPanics ==
    /\ [](\A n \in DeviceNames :
             (devices[n].Scale = scaleLog /\ devices[n].ZeroVolume # 0) =>
                /\ store[devices[n].Property] # devices[n].ZeroVolume
                /\ \A p \in Procs :
                      dev[p] = n /\ pc[p] \in {"patch", "sound"} =>
                         newValue[p] # devices[n].ZeroVolume)
    /\ [](\A p \in Procs : pc[p] = "panic" => patches[p] = 0 /\ sounds[p] = 0)
    /\ [][\A p \in Procs :
             /\ (/\ pc[p] = "get" /\ pc'[p] # "get" /\ err'[p] = "none"
                 /\ cmd[p] = "dec"
                 /\ devices[dev[p]].Scale = scaleLog
                 /\ devices[dev[p]].ZeroVolume # 0
                 /\ SteppedLog(devices[dev[p]],
                               store[devices[dev[p]].Property], FALSE)
                       <= devices[dev[p]].Min) =>
                   pc'[p] = "panic" /\ store' = store
             /\ pc[p] = "panic" => pc'[p] = "panic" /\ patches'[p] = 0]_vars

C7_Witness ==
    \E p \in Procs :
        /\ pc[p] = "panic"
        /\ cmd[p] = "dec"
        /\ devices[dev[p]].ZeroVolume = 5 * Micro
        /\ store[devices[dev[p]].Property] = current[p]

----------------------------------------------------------------------------
(* C8 *)

\* C8: playSound is called only in IncDec, after its one patch succeeded,
\* never in Mute; when it fails the invocation returns an error and the
\* store keeps the value patched: no rollback, no second patch.
C8_SoundAfterGainWrite ==
    /\ [](\A p \in Procs :
             /\ (pc[p] = "sound" \/ sounds[p] > 0) =>
                   /\ cmd[p] \in {"inc", "dec"}
                   /\ patches[p] = 1
                   /\ sounds[p] <= 1
                   /\ err[p] \in {"none", "sound"}
             /\ err[p] = "sound" => pc[p] = "done" /\ sounds[p] = 1)
    /\ [][\A p \in Procs :
             pc[p] = "sound" /\ pc'[p] # "sound" =>
                /\ store' = store
                /\ patches'[p] = patches[p]
                /\ pc'[p] = "done"
                /\ err'[p] \in {"none", "sound"}]_vars

C8_Witness ==
    \E p \in Procs :
        /\ pc[p] = "done" /\ err[p] = "sound"
        /\ patches[p] = 1
        /\ newValue[p] # current[p]
        /\ store[devices[dev[p]].Property] = newValue[p]

----------------------------------------------------------------------------
(* C9 *)

C9_BothIncreased(p, q) ==
    /\ p # q
    /\ pc[p] = "done" /\ pc[q] = "done"
    /\ err[p] = "none" /\ err[q] = "none"
    /\ cmd[p] = "inc" /\ cmd[q] = "inc"
    /\ dev[p] = dev[q]

\* C9: two increase invocations on one device.  When both read the same
\* value v, at least two steps below max, before either wrote, the final
\* value is one increase of v (an update is lost); when the second read
\* what the first wrote, the final value is two increases of v.
C9_LostUpdate ==
    \A p, q \in Procs :
        C9_BothIncreased(p, q) =>
            LET d == devices[dev[p]]
                v == current[p]
            IN
            /\ (/\ current[q] = v
                /\ AtMostDisplayed(d, v, d.Max - 2 * Delta(d))) =>
                  /\ store[d.Property] = Increase(d, v)
                  /\ store[d.Property] # Increase(d, Increase(d, v))
            /\ current[q] = newValue[p] =>
                  store[d.Property] = Increase(d, Increase(d, v))

C9_Witness ==
    \E p, q \in Procs :
        /\ C9_BothIncreased(p, q)
        /\ current[q] = current[p]
        /\ AtMostDisplayed(devices[dev[p]], current[p],
                           devices[dev[p]].Max - 2 * Delta(devices[dev[p]]))
        /\ store[devices[dev[p]].Property] = Increase(devices[dev[p]], current[p])
        /\ store[devices[dev[p]].Property] # current[p]

----------------------------------------------------------------------------
(* C10 *)

\* C10: volumeDenominations steps span the range: increasing repeatedly
\* from min, the value is max from exactly the 16th increase on; decreasing
\* repeatedly from max, zeroVolume is returned from exactly the 16th
\* decrease on.
C10_SixteenSteps ==
    /\ (x0 = BoundValue(FDevice, FDevice.Min) /\ dir) =>
          (x = BoundValue(FDevice, FDevice.Max)
              <=> Len(ops) >= volumeDenominations)
    /\ (x0 = BoundValue(FDevice, FDevice.Max) /\ ~dir) =>
          (x = FDevice.ZeroVolume <=> Len(ops) >= volumeDenominations)

====
